---- MODULE Spec2Model ----
(***************************************************************************)
(* sldshow: the image loader (src/src/image_loader.rs), the image loader   *)
(* thread (src/src/main.rs) and the event-loop handlers that drive them    *)
(* (src/src/main.rs, src/src/state.rs).                                    *)
(*                                                                         *)
(* Two threads share one Mutex<ImageLoader>: the event loop ("consumer")   *)
(* and the image loader thread ("worker").  A step of the model is one     *)
(* critical section, or the code a thread runs between two of them.        *)
(*                                                                         *)
(* Environment: the file system does not change while the program runs, so *)
(* decoding one file always has the same outcome (BadFiles fail).          *)
(***************************************************************************)
EXTENDS Integers, Sequences, FiniteSets, TLC

\* ---------------------------------------------------------------- bounds
MaxLen == 3          \* largest catalog the two threads work on
MaxExtent == 1       \* largest configured cache_extent of the two threads
MaxDrop == 1         \* most eligible files found under one dropped path
MaxSeqLen == 5       \* largest catalog of the specification of whole sections
MaxSeqExtent == 1    \* largest cache_extent of that specification
MaxPureLen == 10    \* largest catalog of the single-threaded specification
MaxPureExtent == 2   \* largest cache_extent of the single-threaded specification

\* ----------------------------------------------------------- environment
Files == {"a.png", "b.png"}
BadFiles == {"b.png"}
NoPath == "none"

\* What a scan can find: up to n eligible files.  The inputs are restricted
\* to scans whose files are all of one kind, and a drop that appends to a
\* catalog brings files of the kind the catalog already holds.
Scanned(n) == {[i \in 1..k |-> f] : k \in 0..n, f \in Files}

\* usize: arithmetic that leaves 0..UsizeMax panics when the build checks
\* overflow and wraps modulo UsizeMax + 1 when it does not.  The width is
\* scaled to the integers of the model checker; only "larger than every
\* catalog index" matters to the code modelled here.
UsizeMax == 1073741823

VARIABLES
    scanned_paths,      \* ImageLoader.scanned_paths
    current_index,      \* ImageLoader.current_index
    cache,              \* ImageLoader.cache: index -> ImageCache
    preload_queue,      \* ImageLoader.preload_queue
    cache_extent,       \* ImageLoader.cache_extent (configuration)
    overflow_checks,    \* build profile: TRUE panics on overflow, FALSE wraps
    scan_subfolders,    \* ImageLoader.scan_subfolders
    lock,               \* holder of the Mutex: "none", "consumer", "worker"
    poisoned,           \* a thread panicked while holding the Mutex
    cpc,                \* event loop: position inside the current handler
    wpc,                \* image loader thread: position inside its loop
    idx,                \* image loader thread local
    load_needed,        \* image loader thread local
    prev_load_needed,   \* image loader thread local
    path,               \* image loader thread local
    paused,             \* State.paused
    pause_at_last,      \* State.pause_at_last
    current_timer_secs, \* State.current_timer_secs
    default_timer_secs, \* State.default_timer_secs
    timer_pc,           \* slideshow timer thread: the call it is in
    timer_dur,          \* slideshow timer thread local dur, in seconds
    timer_paused,       \* slideshow timer thread local paused
    rx_slideshow_timer, \* the TimerState messages sent and not yet received
    user_events,        \* CustomEvents sent to the event loop, not yet handled
    main_pc,            \* main: "setup" before the event loop runs, then "run"
    conf_fullscreen,    \* conf.window.fullscreen
    fullscreen_active,  \* FullscreenController.active
    fullscreen_elapsed, \* FullscreenController.last_time.elapsed(), in ticks
    window_fullscreen,  \* Window::fullscreen() is Some
    cursor_auto_hide,   \* conf.window.cursor_auto_hide
    sleeping,           \* mouse cursor thread local
    rx_mouse_cursor_watcher, \* number of () messages sent, not yet received
    cursor_visible,     \* what Window::set_cursor_visible was last given
    last_cursor_event,  \* the last event the mouse cursor thread has sent
    ev                  \* the last operation and what it returned

loader == <<scanned_paths, current_index, cache, preload_queue>>
config == <<cache_extent, overflow_checks, scan_subfolders>>
mutex == <<lock, poisoned>>
wlocals == <<idx, load_needed, prev_load_needed, path>>
slideshow == <<paused, pause_at_last, current_timer_secs, default_timer_secs,
               timer_pc, timer_dur, timer_paused, rx_slideshow_timer>>
window == <<main_pc, conf_fullscreen, fullscreen_active, fullscreen_elapsed,
            window_fullscreen, cursor_auto_hide, sleeping,
            rx_mouse_cursor_watcher, cursor_visible, last_cursor_event>>
ui == <<slideshow, user_events, window>>
vars == <<scanned_paths, current_index, cache, preload_queue, cache_extent,
          overflow_checks, scan_subfolders, lock, poisoned, cpc, wpc, idx, load_needed,
          prev_load_needed, path, ui, ev>>

\* ------------------------------------------------------------- utilities
Range(s) == {s[i] : i \in 1..Len(s)}
MaxOf(S) == CHOOSE m \in S : \A x \in S : x <= m
Without(c, k) == [i \in DOMAIN c \ {k} |-> c[i]]
With(c, k, e) == [i \in DOMAIN c \cup {k} |-> IF i = k THEN e ELSE c[i]]
EmptyCache == [i \in {} |-> 0]

\* Rust's % on signed integers truncates toward zero.
rem(a, b) == IF a >= 0 THEN a % b ELSE -((-a) % b)

modulo_truncating(a, b) == rem(a, b)

\* utils::modulo
modulo(a, b) == rem(rem(a, b) + b, b)

max_cache_size_plus_one == (cache_extent * 2) + 2

\* ImageLoader::new, max_cache_size
max_cache_size == (cache_extent * 2) + 1

ImageCache_drops_error(p) ==
    IF p \in BadFiles
    THEN [path |-> p, image |-> "1x1", emsg |-> FALSE]
    ELSE [path |-> p, image |-> "decoded", emsg |-> FALSE]

\* ImageLoader::open_and_resize_image wrapped into an ImageCache
ImageCache(p) ==
    IF p \in BadFiles
    THEN [path |-> p, image |-> "1x1", emsg |-> TRUE]
    ELSE [path |-> p, image |-> "decoded", emsg |-> FALSE]
Placeholder == [path |-> NoPath, image |-> "1x1", emsg |-> FALSE]

\* ImageLoader::index_distance: the subtraction len - high leaves usize
index_distance_overflows(a, b) ==
    LET len == Len(scanned_paths)
        high == IF a > b THEN a ELSE b
        low == IF a > b THEN b ELSE a
    IN  a # b /\ ~(high - low <= len \div 2) /\ high > len

index_distance_no_wrap(a, b) ==
    IF a > b THEN a - b ELSE b - a

index_distance_strict(a, b) ==
    IF a = b THEN 0
    ELSE LET len == Len(scanned_paths)
             high == IF a > b THEN a ELSE b
             low == IF a > b THEN b ELSE a
             foward == high - low
         IN  IF foward < len \div 2
             THEN foward
             ELSE (len - high + low) % (UsizeMax + 1)

index_distance(a, b) ==
    IF a = b THEN 0
    ELSE LET len == Len(scanned_paths)
             high == IF a > b THEN a ELSE b
             low == IF a > b THEN b ELSE a
             foward == high - low
         IN  IF foward <= len \div 2
             THEN foward
             ELSE (len - high + low) % (UsizeMax + 1)

get_next_index_rem(amount) ==
    LET len == Len(scanned_paths)
        index == current_index + amount
    IN  IF len <= 1 THEN {}
        ELSE IF index < 0 \/ index >= len THEN {rem(index, len)}
        ELSE {index}

get_next_index_forward(amount) ==
    LET len == Len(scanned_paths)
        index == current_index + (IF amount < 0 THEN -amount ELSE amount)
    IN  IF len <= 1 THEN {}
        ELSE IF index < 0 \/ index >= len THEN {modulo(index, len)}
        ELSE {index}

\* ImageLoader::get_next_index: a set, empty for None
get_next_index(amount) ==
    LET len == Len(scanned_paths)
        index == current_index + amount
    IN  IF len <= 1 THEN {}
        ELSE IF index < 0 \/ index >= len THEN {modulo(index, len)}
        ELSE {index}

ensure_cache_decodes_again(index) == index < Len(scanned_paths)

\* ImageLoader::ensure_cache: TRUE when it has to call the decoder
ensure_cache_decodes(index) ==
    index \notin DOMAIN cache /\ index < Len(scanned_paths)

ensure_cache_keeps_one(c, index) ==
    IF index \in DOMAIN c THEN c
    ELSE IF index < Len(scanned_paths)
         THEN With(EmptyCache, index, ImageCache(scanned_paths[index + 1]))
         ELSE With(EmptyCache, index, Placeholder)

ensure_cache_skips_missing(c, index) ==
    IF index \in DOMAIN c THEN c
    ELSE IF index < Len(scanned_paths)
         THEN With(c, index, ImageCache(scanned_paths[index + 1]))
         ELSE c

ensure_cache(c, index) ==
    IF index \in DOMAIN c THEN c
    ELSE IF index < Len(scanned_paths)
         THEN With(c, index, ImageCache(scanned_paths[index + 1]))
         ELSE With(c, index, Placeholder)

RECURSIVE push_neighbours_far_first(_, _)
push_neighbours_far_first(q, i) ==
    IF i > cache_extent THEN q
    ELSE LET fwd == get_next_index(cache_extent + 1 - i)
             bwd == get_next_index(-(cache_extent + 1 - i))
             q1 == IF fwd = {} THEN q ELSE Append(q, CHOOSE x \in fwd : TRUE)
             q2 == IF bwd = {} THEN q1 ELSE Append(q1, CHOOSE x \in bwd : TRUE)
         IN  push_neighbours_far_first(q2, i + 1)

\* ImageLoader::get_current, the preload queue update
RECURSIVE push_neighbours(_, _)
push_neighbours(q, i) ==
    IF i > cache_extent THEN q
    ELSE LET fwd == get_next_index(i)
             bwd == get_next_index(-i)
             q1 == IF fwd = {} THEN q ELSE Append(q, CHOOSE x \in fwd : TRUE)
             q2 == IF bwd = {} THEN q1 ELSE Append(q1, CHOOSE x \in bwd : TRUE)
         IN  push_neighbours(q2, i + 1)

get_current_queue_no_clear(old) == push_neighbours(old, 1)

get_current_queue(old) == push_neighbours(<<>>, 1)

\* ImageLoader::get_current, its result
get_current_result(c, index) == IF index \in DOMAIN c THEN "Ok" ELSE "Err"

RECURSIVE limit_cache_nearest(_)
limit_cache_nearest(c) ==
    IF ~(Cardinality(DOMAIN c) > max_cache_size) THEN {c}
    ELSE LET max_dist == MaxOf({-index_distance(current_index, k) : k \in DOMAIN c})
             found == {k \in DOMAIN c : -index_distance(current_index, k) = max_dist}
         IN  UNION {limit_cache_nearest(Without(c, k)) : k \in found}

\* ImageLoader::limit_cache: every cache it can return (the key found among
\* the farthest ones depends on the iteration order of the HashMap)
RECURSIVE limit_cache(_)
limit_cache(c) ==
    IF ~(Cardinality(DOMAIN c) > max_cache_size) THEN {c}
    ELSE LET max_dist == MaxOf({index_distance(current_index, k) : k \in DOMAIN c})
             found == {k \in DOMAIN c : index_distance(current_index, k) = max_dist}
         IN  UNION {limit_cache(Without(c, k)) : k \in found}

RECURSIVE limit_cache_result_strict(_)
limit_cache_result_strict(c) ==
    IF DOMAIN c = {} THEN "Err"
    ELSE IF ~(Cardinality(DOMAIN c) > max_cache_size) THEN "Ok"
    ELSE limit_cache_result_strict(Without(c, CHOOSE k \in DOMAIN c : TRUE))

\* ImageLoader::limit_cache, its result: Err when max() or find() has no key
\* to return inside the loop
RECURSIVE limit_cache_result(_)
limit_cache_result(c) ==
    IF ~(Cardinality(DOMAIN c) > max_cache_size) THEN "Ok"
    ELSE IF DOMAIN c = {} THEN "Err"
    ELSE limit_cache_result(Without(c, CHOOSE k \in DOMAIN c : TRUE))

limit_cache_overflows(c) ==
    /\ Cardinality(DOMAIN c) > max_cache_size
    /\ \E k \in DOMAIN c : index_distance_overflows(current_index, k)

\* ------------------------------------------------------------------ Init
\* The slideshow is paused with no timer running, the window is set up and
\* the cursor is not watched: the state in which the threads of the timer
\* and of the cursor have nothing to do.
InitUi ==
    /\ paused = TRUE
    /\ pause_at_last = FALSE
    /\ current_timer_secs = 0
    /\ default_timer_secs = 0
    /\ timer_pc = "recv"
    /\ timer_dur = 0
    /\ timer_paused = TRUE
    /\ rx_slideshow_timer = <<>>
    /\ user_events = <<>>
    /\ main_pc = "run"
    /\ conf_fullscreen = FALSE
    /\ fullscreen_active = FALSE
    /\ fullscreen_elapsed = 0
    /\ window_fullscreen = FALSE
    /\ cursor_auto_hide = FALSE
    /\ sleeping = FALSE
    /\ rx_mouse_cursor_watcher = 0
    /\ cursor_visible = TRUE
    /\ last_cursor_event = "none"

Init ==
    /\ InitUi
    /\ scanned_paths \in Scanned(MaxLen)
    /\ current_index = 0
    /\ cache = EmptyCache
    /\ preload_queue = <<>>
    /\ cache_extent \in 0..MaxExtent
    /\ overflow_checks \in BOOLEAN
    /\ scan_subfolders = FALSE  \* the default of the configuration
    /\ lock = "none"
    /\ poisoned = FALSE
    /\ cpc = "idle"
    /\ wpc = "dequeue"
    /\ idx = 0
    /\ load_needed = FALSE
    /\ prev_load_needed = FALSE
    /\ path = NoPath
    /\ ev = [op |-> "init"]

\* A panic of the main thread ends the process.
Running == cpc # "panicked"

\* lock().unwrap() on a poisoned Mutex panics, in the event loop
ConsumerLockPanics ==
    /\ poisoned
    /\ cpc' = "panicked"
    /\ ev' = [op |-> "panic", by |-> "consumer", at |-> "lock"]
    /\ UNCHANGED <<loader, config, ui, mutex, wpc, wlocals>>

\* ------------------------------------------------------------ event loop
\* State::next_image, its critical section (Nav::Next, Prev, Next10, Prev10)
next_image(amount) ==
    /\ Running /\ cpc = "idle" /\ lock = "none"
    /\ \/ ConsumerLockPanics
       \/ /\ ~poisoned
          /\ current_index' = (IF get_next_index(amount) = {} THEN current_index
                               ELSE CHOOSE x \in get_next_index(amount) : TRUE)
          /\ cpc' = "draw"
          /\ ev' = [op |-> "next_index"]
          /\ UNCHANGED <<scanned_paths, cache, preload_queue, config, ui, mutex,
                         wpc, wlocals>>

\* State::first_image, its critical section
first_image ==
    /\ Running /\ cpc = "idle" /\ lock = "none"
    /\ \/ ConsumerLockPanics
       \/ /\ ~poisoned
          /\ current_index' = 0
          /\ cpc' = "draw"
          /\ ev' = [op |-> "first_image"]
          /\ UNCHANGED <<scanned_paths, cache, preload_queue, config, ui, mutex,
                         wpc, wlocals>>

\* State::last_image, its critical section: len - 1 leaves usize when the
\* catalog is empty
last_image ==
    /\ Running /\ cpc = "idle" /\ lock = "none"
    /\ \/ ConsumerLockPanics
       \/ /\ ~poisoned
          /\ Len(scanned_paths) = 0 /\ overflow_checks
          /\ poisoned' = TRUE
          /\ cpc' = "panicked"
          /\ ev' = [op |-> "panic", by |-> "consumer", at |-> "overflow"]
          /\ UNCHANGED <<loader, config, ui, lock, wpc, wlocals>>
       \/ /\ ~poisoned
          /\ ~(Len(scanned_paths) = 0 /\ overflow_checks)
          /\ current_index' = (Len(scanned_paths) - 1) % (UsizeMax + 1)
          /\ cpc' = "draw"
          /\ ev' = [op |-> "last_image"]
          /\ UNCHANGED <<scanned_paths, cache, preload_queue, config, ui, mutex,
                         wpc, wlocals>>

\* State::draw_current_image: takes the lock and calls get_current, which
\* runs to its end when ensure_cache has nothing to decode and otherwise
\* enters the decoder with the lock held
draw_current_image ==
    /\ Running /\ cpc \in {"idle", "draw", "draw_dropped"} /\ lock = "none"
    /\ \/ ConsumerLockPanics
       \/ /\ ~poisoned
          /\ ensure_cache_decodes(current_index)
          /\ lock' = "consumer"
          /\ cpc' = "get_current"
          /\ ev' = [op |-> "decode", by |-> "consumer"]
          /\ UNCHANGED <<loader, config, ui, poisoned, wpc, wlocals>>
       \/ /\ ~poisoned
          /\ ~ensure_cache_decodes(current_index)
          /\ cache' = ensure_cache(cache, current_index)
          /\ preload_queue' = get_current_queue(preload_queue)
          /\ cpc' = "idle"
          /\ ev' = [op |-> "get_current",
                    ret |-> get_current_result(cache', current_index),
                    decoded |-> FALSE,
                    stale |-> Range(preload_queue) \ Range(preload_queue') # {}]
          /\ UNCHANGED <<scanned_paths, current_index, config, ui, mutex, wpc,
                         wlocals>>

\* ImageLoader::get_current from the return of the decoder to the release
\* of the lock by draw_current_image
get_current ==
    /\ Running /\ cpc = "get_current" /\ lock = "consumer"
    /\ cache' = ensure_cache(cache, current_index)
    /\ preload_queue' = get_current_queue(preload_queue)
    /\ lock' = "none"
    /\ cpc' = "idle"
    /\ ev' = [op |-> "get_current",
              ret |-> get_current_result(cache', current_index),
              decoded |-> TRUE,
              stale |-> Range(preload_queue) \ Range(preload_queue') # {}]
    /\ UNCHANGED <<scanned_paths, current_index, config, ui, poisoned, wpc,
                   wlocals>>

append_path_replaces(paths, found) == found

\* ImageLoader::append_path: found is what the scan of the path finds (the
\* path itself when it is a supported file)
append_path(paths, found) == paths \o found

\* WindowEvent::DroppedFile: elapsed says whether FILE_DROP_TIMEOUT has
\* passed since the last drop, found is what append_path finds under the path
DroppedFile(elapsed, found) ==
    /\ Running /\ cpc = "idle" /\ lock = "none"
    /\ \/ /\ poisoned
          /\ ev' = [op |-> "drop", new |-> FALSE]
          /\ UNCHANGED <<loader, config, ui, mutex, cpc, wpc, wlocals>>
       \/ /\ ~poisoned
          /\ LET cleared == IF elapsed THEN <<>> ELSE scanned_paths
                 new == elapsed \/ cleared = <<>>
                 paths == append_path(cleared, found)
             IN  /\ Len(paths) <= MaxLen
                 /\ scanned_paths' = paths
                 /\ ev' = [op |-> "drop", new |-> new]
                 /\ IF ~new
                    THEN UNCHANGED <<current_index, cache, lock, cpc>>
                    ELSE /\ current_index' = 0
                         /\ IF paths # <<>>
                            THEN /\ cache' = EmptyCache
                                 /\ lock' = "consumer"
                                 /\ cpc' = "force_reload_cache"
                            ELSE /\ cache' = With(EmptyCache, 0, Placeholder)
                                 /\ lock' = "none"
                                 /\ cpc' = "draw_dropped"
          /\ UNCHANGED <<preload_queue, config, ui, poisoned, wpc, wlocals>>

\* WindowEvent::DroppedFile from the return of the decoder called by
\* force_reload_cache(&0) to the release of the lock
force_reload_cache ==
    /\ Running /\ cpc = "force_reload_cache" /\ lock = "consumer"
    /\ cache' = ensure_cache(Without(cache, 0), 0)
    /\ lock' = "none"
    /\ cpc' = "draw_dropped"
    /\ ev' = [op |-> "force_reload_cache"]
    /\ UNCHANGED <<scanned_paths, current_index, preload_queue, config, ui,
                   poisoned, wpc, wlocals>>

\* ---------------------------------------------------- image loader thread
\* lock().unwrap() on a poisoned Mutex panics, in the image loader thread
WorkerLockPanics ==
    /\ poisoned
    /\ wpc' = "panicked"
    /\ ev' = [op |-> "panic", by |-> "worker", at |-> "lock"]
    /\ UNCHANGED <<loader, config, ui, mutex, cpc, wlocals>>

\* "dequeue": one critical section.  An iteration that loads nothing ends
\* here when it has no limit_cache to call (prev_load_needed is false).
\* after is the holder of the lock once the block is left.
dequeue_block(after) ==
    /\ Running /\ wpc = "dequeue" /\ lock = "none"
    /\ \/ WorkerLockPanics
       \/ /\ ~poisoned
          /\ preload_queue # <<>>
          /\ Head(preload_queue) >= Len(scanned_paths)
          \* scanned_paths.get(index).unwrap() on None, the lock is held
          /\ preload_queue' = Tail(preload_queue)
          /\ idx' = Head(preload_queue)
          /\ load_needed' = (Head(preload_queue) \notin DOMAIN cache)
          /\ poisoned' = TRUE
          /\ wpc' = "panicked"
          /\ ev' = [op |-> "panic", by |-> "worker", at |-> "unwrap"]
          /\ UNCHANGED <<scanned_paths, current_index, cache, config, ui, lock,
                         cpc, prev_load_needed, path>>
       \/ /\ ~poisoned
          /\ preload_queue # <<>>
          /\ Head(preload_queue) < Len(scanned_paths)
          /\ preload_queue' = Tail(preload_queue)
          /\ idx' = Head(preload_queue)
          /\ load_needed' = (Head(preload_queue) \notin DOMAIN cache)
          /\ path' = scanned_paths[Head(preload_queue) + 1]
          /\ wpc' = IF load_needed' THEN "load"
                    ELSE IF prev_load_needed THEN "limit" ELSE "dequeue"
          /\ lock' = IF load_needed' THEN after ELSE "none"
          /\ ev' = [op |-> "dequeue"]
          /\ UNCHANGED <<scanned_paths, current_index, cache, config, ui,
                         poisoned, cpc, prev_load_needed>>
       \/ /\ ~poisoned
          /\ preload_queue = <<>>
          /\ idx' = 0
          /\ load_needed' = FALSE
          /\ path' = NoPath
          /\ wpc' = IF prev_load_needed THEN "limit" ELSE "dequeue"
          /\ ev' = [op |-> "dequeue"]
          /\ UNCHANGED <<loader, config, ui, mutex, cpc, prev_load_needed>>

dequeue_holding == dequeue_block("worker")
dequeue == dequeue_block("none")

\* "load image": the decoder, called without the lock
load_image ==
    /\ Running /\ wpc = "load"
    /\ wpc' = "insert"
    /\ ev' = [op |-> "decode", by |-> "worker"]
    /\ UNCHANGED <<loader, config, ui, mutex, cpc, wlocals>>

insert_forgets ==
    /\ Running /\ wpc = "insert" /\ lock = "none"
    /\ \/ WorkerLockPanics
       \/ /\ ~poisoned
          /\ cache' = With(cache, idx, ImageCache(path))
          /\ prev_load_needed' = FALSE
          /\ wpc' = "dequeue"
          /\ ev' = [op |-> "insert", present |-> idx \in DOMAIN cache]
          /\ UNCHANGED <<scanned_paths, current_index, preload_queue, config, ui,
                         mutex, cpc, idx, load_needed, path>>

\* "load image": the critical section that inserts the result; the
\* iteration ends here (load_needed is true: no limit_cache, no sleep)
insert ==
    /\ Running /\ wpc = "insert" /\ lock = "none"
    /\ \/ WorkerLockPanics
       \/ /\ ~poisoned
          /\ cache' = With(cache, idx, ImageCache(path))
          /\ prev_load_needed' = load_needed
          /\ wpc' = "dequeue"
          /\ ev' = [op |-> "insert", present |-> idx \in DOMAIN cache]
          /\ UNCHANGED <<scanned_paths, current_index, preload_queue, config, ui,
                         mutex, cpc, idx, load_needed, path>>

\* "limit queue size": prev_load_needed && !load_needed; a poisoned Mutex
\* skips the call, an overflow inside limit_cache panics with the lock held
limit_queue_size ==
    /\ Running /\ wpc = "limit" /\ lock = "none"
    /\ \/ /\ poisoned
          /\ prev_load_needed' = load_needed
          /\ wpc' = "dequeue"
          /\ ev' = [op |-> "skip"]
          /\ UNCHANGED <<loader, config, ui, mutex, cpc, idx, load_needed, path>>
       \/ /\ ~poisoned
          /\ limit_cache_overflows(cache) /\ overflow_checks
          /\ poisoned' = TRUE
          /\ wpc' = "panicked"
          /\ ev' = [op |-> "panic", by |-> "worker", at |-> "overflow"]
          /\ UNCHANGED <<loader, config, ui, lock, cpc, wlocals>>
       \/ /\ ~poisoned
          /\ ~(limit_cache_overflows(cache) /\ overflow_checks)
          /\ cache' \in limit_cache(cache)
          /\ prev_load_needed' = load_needed
          /\ wpc' = "dequeue"
          /\ ev' = [op |-> "limit_cache", ret |-> limit_cache_result(cache),
                    removed |-> Cardinality(DOMAIN cache) - Cardinality(DOMAIN cache'),
                    gone |-> DOMAIN cache \ DOMAIN cache']
          /\ UNCHANGED <<scanned_paths, current_index, preload_queue, config, ui,
                         mutex, cpc, idx, load_needed, path>>

\* ------------------------------------------------------------------ Next
Next ==
    \/ \E amount \in {1, -1, 10, -10} : next_image(amount)
    \/ first_image
    \/ last_image
    \/ draw_current_image
    \/ get_current
    \/ \E elapsed \in BOOLEAN, found \in Scanned(MaxDrop) :
          /\ elapsed \/ scanned_paths = <<>> \/ Range(found) \subseteq Range(scanned_paths)
          /\ DroppedFile(elapsed, found)
    \/ force_reload_cache
    \/ dequeue
    \/ load_image
    \/ insert
    \/ limit_queue_size

Spec == Init /\ [][Next]_vars

\* ------------------------------------------- single-threaded specification
\* The functions of ImageLoader applied to every catalog size, position and
\* cache_extent up to MaxPureLen and MaxPureExtent, without the threads.
InitPure ==
    /\ InitUi
    /\ scanned_paths \in {[i \in 1..k |-> "a.png"] : k \in 0..MaxPureLen}
    /\ current_index \in {i \in 0..MaxPureLen : i = 0 \/ i < Len(scanned_paths)}
    /\ cache = EmptyCache
    /\ preload_queue = <<>>
    /\ cache_extent \in 0..MaxPureExtent
    /\ overflow_checks = FALSE  \* nothing applied here leaves usize
    /\ scan_subfolders = FALSE
    /\ lock = "none"
    /\ poisoned = FALSE
    /\ cpc = "idle"
    /\ wpc = "dequeue"
    /\ idx = 0
    /\ load_needed = FALSE
    /\ prev_load_needed = FALSE
    /\ path = NoPath
    /\ ev = [op |-> "init"]

\* ImageLoader::index_distance(a, b)
call_index_distance(a, b) ==
    /\ ev' = [op |-> "index_distance", a |-> a, b |-> b,
              ret |-> index_distance(a, b)]
    /\ UNCHANGED <<loader, config, ui, mutex, cpc, wpc, wlocals>>

\* ImageLoader::get_current, the preload queue update
call_get_current_queue ==
    /\ preload_queue' = get_current_queue(preload_queue)
    /\ ev' = [op |-> "get_current_queue"]
    /\ UNCHANGED <<scanned_paths, current_index, cache, config, ui, mutex, cpc,
                   wpc, wlocals>>

\* ImageLoader::next_index(amount)
call_next_index(amount) ==
    /\ current_index' = (IF get_next_index(amount) = {} THEN current_index
                         ELSE CHOOSE x \in get_next_index(amount) : TRUE)
    /\ ev' = [op |-> "next_index", from |-> current_index, amount |-> amount]
    /\ UNCHANGED <<scanned_paths, cache, preload_queue, config, ui, mutex, cpc,
                   wpc, wlocals>>

\* ImageLoader::limit_cache, called on the cache as it is
call_limit_cache ==
    /\ cache' \in limit_cache(cache)
    /\ ev' = [op |-> "limit_cache", ret |-> limit_cache_result(cache),
              removed |-> Cardinality(DOMAIN cache) - Cardinality(DOMAIN cache'),
              gone |-> DOMAIN cache \ DOMAIN cache']
    /\ UNCHANGED <<scanned_paths, current_index, preload_queue, config, ui, mutex,
                   cpc, wpc, wlocals>>

NextPure ==
    \* limit_cache measures every key from current_index
    \/ \E b \in 0..(Len(scanned_paths) - 1) : call_index_distance(current_index, b)
    \/ call_get_current_queue
    \/ call_limit_cache
    \/ \E amount \in {1, -1, 10, -10} : call_next_index(amount)

SpecPure == InitPure /\ [][NextPure]_vars

\* ------------------------------------------------------- whole handlers
\* The two threads with every handler of the event loop taken as one step
\* (its critical sections run without the worker in between), on larger
\* catalogs than Spec.  The image loader thread keeps its critical sections.
InitSeq ==
    /\ InitUi
    /\ scanned_paths \in {[i \in 1..k |-> "a.png"] : k \in 0..MaxSeqLen}
    /\ current_index = 0
    /\ cache = EmptyCache
    /\ preload_queue = <<>>
    /\ cache_extent \in 0..MaxSeqExtent
    /\ overflow_checks \in BOOLEAN
    /\ scan_subfolders = FALSE  \* the default of the configuration
    /\ lock = "none"
    /\ poisoned = FALSE
    /\ cpc = "idle"
    /\ wpc = "dequeue"
    /\ idx = 0
    /\ load_needed = FALSE
    /\ prev_load_needed = FALSE
    /\ path = NoPath
    /\ ev = [op |-> "init"]

\* State::next_image: next_index, then draw_current_image
seq_next_image(amount) ==
    /\ Running
    /\ \/ ConsumerLockPanics
       \/ /\ ~poisoned
          /\ UNCHANGED <<scanned_paths, config, ui, mutex, cpc, wpc, wlocals>>
          /\ current_index' = (IF get_next_index(amount) = {} THEN current_index
                               ELSE CHOOSE x \in get_next_index(amount) : TRUE)
          /\ cache' = ensure_cache(cache, current_index')
          /\ preload_queue' = get_current_queue(<<>>)'
          /\ ev' = [op |-> "get_current",
                    ret |-> get_current_result(cache', current_index'),
                    decoded |-> current_index' \notin DOMAIN cache,
                    stale |-> Range(preload_queue) \ Range(preload_queue') # {}]

\* WindowEvent::DroppedFile after FILE_DROP_TIMEOUT: the catalog is replaced
\* by what append_path finds, then draw_current_image
seq_dropped_file(found) ==
    /\ Running /\ ~poisoned
    /\ UNCHANGED <<config, ui, mutex, cpc, wpc, wlocals>>
    /\ scanned_paths' = found
    /\ current_index' = 0
    /\ cache' = ensure_cache(EmptyCache, 0)'
    /\ preload_queue' = get_current_queue(<<>>)'
    /\ ev' = [op |-> "drop", new |-> TRUE]

\* image loader thread: "dequeue" (the head is an index of the catalog here:
\* the handlers above leave the queue rebuilt)
seq_dequeue ==
    /\ Running /\ wpc = "dequeue" /\ ~poisoned
    /\ \/ /\ preload_queue # <<>>
          /\ preload_queue' = Tail(preload_queue)
          /\ idx' = Head(preload_queue)
          /\ load_needed' = (Head(preload_queue) \notin DOMAIN cache)
          /\ path' = scanned_paths[Head(preload_queue) + 1]
          /\ wpc' = IF load_needed' THEN "insert"
                    ELSE IF prev_load_needed THEN "limit" ELSE "dequeue"
          /\ ev' = [op |-> "dequeue"]
          /\ UNCHANGED <<scanned_paths, current_index, cache, config, ui, mutex,
                         cpc, prev_load_needed>>
       \/ /\ preload_queue = <<>>
          /\ idx' = 0
          /\ load_needed' = FALSE
          /\ path' = NoPath
          /\ wpc' = IF prev_load_needed THEN "limit" ELSE "dequeue"
          /\ ev' = [op |-> "dequeue"]
          /\ UNCHANGED <<loader, config, ui, mutex, cpc, prev_load_needed>>

seq_insert_cancels ==
    /\ Running /\ wpc = "insert" /\ ~poisoned
    /\ cache' = IF idx \in Range(preload_queue) \/ preload_queue = <<>>
                THEN With(cache, idx, ImageCache(path)) ELSE cache
    /\ prev_load_needed' = load_needed
    /\ wpc' = "dequeue"
    /\ ev' = [op |-> "insert", present |-> idx \in DOMAIN cache]
    /\ UNCHANGED <<scanned_paths, current_index, preload_queue, config, ui,
                   mutex, cpc, idx, load_needed, path>>

\* image loader thread: "load image", the decoder and the insertion
seq_insert ==
    /\ Running /\ wpc = "insert" /\ ~poisoned
    /\ cache' = With(cache, idx, ImageCache(path))
    /\ prev_load_needed' = load_needed
    /\ wpc' = "dequeue"
    /\ ev' = [op |-> "insert", present |-> idx \in DOMAIN cache]
    /\ UNCHANGED <<scanned_paths, current_index, preload_queue, config, ui,
                   mutex, cpc, idx, load_needed, path>>

\* image loader thread: "limit queue size", prev_load_needed && !load_needed
seq_limit_cache ==
    /\ Running /\ wpc = "limit" /\ ~poisoned
    /\ \/ /\ limit_cache_overflows(cache) /\ overflow_checks
          /\ poisoned' = TRUE
          /\ wpc' = "panicked"
          /\ ev' = [op |-> "panic", by |-> "worker", at |-> "overflow"]
          /\ UNCHANGED <<loader, config, ui, lock, cpc, wlocals>>
       \/ /\ ~(limit_cache_overflows(cache) /\ overflow_checks)
          /\ cache' \in limit_cache(cache)
          /\ prev_load_needed' = load_needed
          /\ wpc' = "dequeue"
          /\ ev' = [op |-> "limit_cache", ret |-> limit_cache_result(cache),
                    removed |-> Cardinality(DOMAIN cache) - Cardinality(DOMAIN cache'),
                    gone |-> DOMAIN cache \ DOMAIN cache']
          /\ UNCHANGED <<scanned_paths, current_index, preload_queue, config, ui,
                         mutex, cpc, idx, load_needed, path>>

NextSeq ==
    \/ \E amount \in {1, -1, 10, -10} : seq_next_image(amount)
    \/ \E k \in 0..MaxSeqLen : seq_dropped_file([i \in 1..k |-> "a.png"])
    \/ seq_dequeue
    \/ seq_insert
    \/ seq_limit_cache

SpecSeq == InitSeq /\ [][NextSeq]_vars

\* The image loader thread is a thread of its own that loops for ever: it is
\* scheduled again and again, also when the event loop has nothing to do.
seq_worker == seq_dequeue \/ seq_insert \/ seq_limit_cache

SpecSeqFair == InitSeq /\ [][NextSeq]_vars /\ WF_vars(seq_worker)

\* ---------------------------------------------------- scan specification
\* The scan of the input paths applied to small file systems.  A path is a
\* sequence of names; a file is its path and its extension ("" for none).
\* Directories are named 1, files 0 and 2, so that a directory lists a file
\* before and a file after its subdirectory.  A directory exists when a
\* file lies below it.  The input paths are the directory 1 and the file 2.
MaxScanFiles == 2

\* MAX_DEPTH_SCAN (999 in the source), scaled to the file systems of the
\* model: only "a directory nested deeper than this is not read" matters.
MAX_DEPTH_SCAN == 1

SUPPORTED_IMAGE_FORMATS == {"png", "jpg"}
Extensions == {"png", "PNG", "txt", ""}
FileNames == {0, 2}
DirName == 1
ScanDirs == {[i \in 1..k |-> DirName] : k \in 1..(MAX_DEPTH_SCAN + 2)}
ScanFiles ==
    {[path |-> Append(d, n), ext |-> e] :
        d \in ScanDirs, n \in FileNames, e \in Extensions}
    \cup {[path |-> <<2>>, ext |-> e] : e \in Extensions}
RECURSIVE FileSystemsOf(_)
FileSystemsOf(k) ==
    IF k = 0 THEN {{}}
    ELSE LET smaller == FileSystemsOf(k - 1)
         IN  smaller \cup
             {fs \cup {f} : fs \in smaller,
                            f \in ScanFiles}
FileSystems ==
    {fs \in FileSystemsOf(MaxScanFiles) :
        \A f, g \in fs : f.path = g.path => f = g}
InputPaths ==
    {<<>>, <<<<1>>>>, <<<<2>>>>, <<<<1>>, <<2>>>>, <<<<2>>, <<1>>>>}

IsPrefix(p, q) == Len(p) <= Len(q) /\ SubSeq(q, 1, Len(p)) = p

\* Path::is_dir, Path::is_file, Path::extension
is_dir(fs, p) == \E f \in fs : IsPrefix(p, f.path) /\ f.path # p
is_file(fs, p) == \E f \in fs : f.path = p
FileAt(fs, p) == CHOOSE f \in fs : f.path = p

\* OsStr::to_ascii_lowercase on the extensions of the model
to_ascii_lowercase(e) == IF e = "PNG" THEN "png" ELSE e

is_supported_ext_exact(f) ==
    f.ext # "" /\ \E fmt_ext \in SUPPORTED_IMAGE_FORMATS : f.ext = fmt_ext

\* ImageLoader::is_supported_ext
is_supported_ext(f) ==
    f.ext # "" /\ \E fmt_ext \in SUPPORTED_IMAGE_FORMATS :
                     to_ascii_lowercase(f.ext) = fmt_ext

\* fs::read_dir: the entries of a directory, in no order
read_dir(fs, dir) ==
    {SubSeq(f.path, 1, Len(dir) + 1) :
        f \in {g \in fs : IsPrefix(dir, g.path) /\ g.path # dir}}

\* alphanumeric_sort::sort_path_slice on the entries of one directory
RECURSIVE sort_path_slice(_)
sort_path_slice(paths) ==
    IF paths = {} THEN <<>>
    ELSE LET first == CHOOSE p \in paths :
                         \A q \in paths : p[Len(p)] <= q[Len(q)]
         IN  <<first>> \o sort_path_slice(paths \ {first})

RECURSIVE scan_recursively_any_depth(_, _, _, _)
RECURSIVE scan_recursively(_, _, _, _)
RECURSIVE scan_entries(_, _, _, _)

scan_recursively_any_depth(fs, out, dir, depth) ==
    IF depth > MAX_DEPTH_SCAN
    THEN out
    ELSE scan_entries(fs, out, sort_path_slice(read_dir(fs, dir)), depth)

\* ImageLoader::scan_recursively
scan_recursively(fs, out, dir, depth) ==
    IF \/ scan_subfolders /\ depth > MAX_DEPTH_SCAN
       \/ ~scan_subfolders /\ depth > 0
    THEN out
    ELSE scan_entries(fs, out, sort_path_slice(read_dir(fs, dir)), depth)

\* ImageLoader::scan_recursively, the loop over the sorted entries
scan_entries(fs, out, paths, depth) ==
    IF paths = <<>> THEN out
    ELSE LET p == Head(paths)
             out1 == IF is_dir(fs, p)
                     THEN scan_recursively(fs, out, p, depth + 1)
                     ELSE IF is_file(fs, p) /\ is_supported_ext(FileAt(fs, p))
                          THEN Append(out, FileAt(fs, p))
                          ELSE out
         IN  scan_entries(fs, out1, Tail(paths), depth)

\* ImageLoader::scan_input_paths
RECURSIVE scan_input_paths(_, _, _)
scan_input_paths(fs, out, paths) ==
    IF paths = <<>> THEN out
    ELSE LET p == Head(paths)
             out1 == IF is_dir(fs, p)
                     THEN scan_recursively(fs, out, p, 0)
                     ELSE IF is_file(fs, p) /\ is_supported_ext(FileAt(fs, p))
                          THEN Append(out, FileAt(fs, p))
                          ELSE out
         IN  scan_input_paths(fs, out1, Tail(paths))

InitScan ==
    /\ InitUi
    /\ scanned_paths = <<>>
    /\ current_index = 0
    /\ cache = EmptyCache
    /\ preload_queue = <<>>
    /\ cache_extent = 0
    /\ overflow_checks = FALSE
    /\ scan_subfolders \in BOOLEAN
    /\ lock = "none"
    /\ poisoned = FALSE
    /\ cpc = "idle"
    /\ wpc = "dequeue"
    /\ idx = 0
    /\ load_needed = FALSE
    /\ prev_load_needed = FALSE
    /\ path = NoPath
    /\ ev = [op |-> "init"]

\* main: loader.scan_input_paths(&input_paths) on the file system fs
call_scan_input_paths ==
    /\ ev.op = "init"
    /\ \E fs \in FileSystems, paths \in InputPaths :
          /\ scanned_paths' = scan_input_paths(fs, <<>>, paths)
          /\ ev' = [op |-> "scan_input_paths", fs |-> fs, paths |-> paths]
    /\ UNCHANGED <<current_index, cache, preload_queue, config, ui, mutex, cpc,
                   wpc, wlocals>>

NextScan == call_scan_input_paths

SpecScan == InitScan /\ [][NextScan]_vars

\* -------------------------------------------------- decode specification
\* The orientation step of the decoder applied to small images.  An image is
\* its width, its height and its pixels, px[<<x, y>>] with <<0, 0>> the top
\* left corner; a pixel is 0 or 1.
MaxImageSide == 2

Pixels == {0, 1}
Grid(w, h) == (0..(w - 1)) \X (0..(h - 1))
Images ==
    UNION {{[w |-> w, h |-> h, px |-> px] : px \in [Grid(w, h) -> Pixels]} :
            w \in 1..MaxImageSide, h \in 1..MaxImageSide}

\* What get_exif_orientation returns: None ({}) or Some(v) ({v}), v a u16
Orientations == {{}} \cup {{v} : v \in 0..9}

\* image::DynamicImage::fliph, flipv, rotate90, rotate180, rotate270
\* (rotations are clockwise)
fliph(img) ==
    [w |-> img.w, h |-> img.h,
     px |-> [c \in Grid(img.w, img.h) |-> img.px[<<img.w - 1 - c[1], c[2]>>]]]
flipv(img) ==
    [w |-> img.w, h |-> img.h,
     px |-> [c \in Grid(img.w, img.h) |-> img.px[<<c[1], img.h - 1 - c[2]>>]]]
rotate90(img) ==
    [w |-> img.h, h |-> img.w,
     px |-> [c \in Grid(img.h, img.w) |-> img.px[<<c[2], img.h - 1 - c[1]>>]]]
rotate180(img) ==
    [w |-> img.w, h |-> img.h,
     px |-> [c \in Grid(img.w, img.h) |->
                img.px[<<img.w - 1 - c[1], img.h - 1 - c[2]>>]]]
rotate270(img) ==
    [w |-> img.h, h |-> img.w,
     px |-> [c \in Grid(img.h, img.w) |-> img.px[<<img.w - 1 - c[2], c[1]>>]]]

exif_orientation_mirrored(img, orientation) ==
    IF orientation = {} THEN img
    ELSE LET o == CHOOSE v \in orientation : TRUE
         IN  CASE o = 1 -> img
               [] o = 2 -> fliph(img)
               [] o = 3 -> rotate180(img)
               [] o = 4 -> flipv(img)
               [] o = 5 -> rotate90(flipv(img))
               [] o = 6 -> rotate270(img)
               [] o = 7 -> rotate270(flipv(img))
               [] o = 8 -> rotate90(img)
               [] OTHER -> img

\* ImageLoader::open_and_resize_image, the match on the Exif orientation
exif_orientation(img, orientation) ==
    IF orientation = {} THEN img
    ELSE LET o == CHOOSE v \in orientation : TRUE
         IN  CASE o = 1 -> img
               [] o = 2 -> fliph(img)
               [] o = 3 -> rotate180(img)
               [] o = 4 -> flipv(img)
               [] o = 5 -> rotate90(flipv(img))
               [] o = 6 -> rotate90(img)
               [] o = 7 -> rotate270(flipv(img))
               [] o = 8 -> rotate270(img)
               [] OTHER -> img

\* A file that holds the image file and for which get_exif_orientation
\* returns orientation is about to be decoded.
InitDecode ==
    /\ InitUi
    /\ scanned_paths = <<>>
    /\ current_index = 0
    /\ cache = EmptyCache
    /\ preload_queue = <<>>
    /\ cache_extent = 0
    /\ overflow_checks = FALSE
    /\ scan_subfolders = FALSE
    /\ lock = "none"
    /\ poisoned = FALSE
    /\ cpc = "idle"
    /\ wpc = "dequeue"
    /\ idx = 0
    /\ load_needed = FALSE
    /\ prev_load_needed = FALSE
    /\ path = NoPath
    /\ ev \in {[op |-> "image::open", file |-> file, orientation |-> orientation] :
                  file \in Images, orientation \in Orientations}

\* ImageLoader::open_and_resize_image from the opened image to the resize
call_open_and_resize_image ==
    /\ ev.op = "image::open"
    /\ ev' = [op |-> "open_and_resize_image", file |-> ev.file,
              orientation |-> ev.orientation,
              img |-> exif_orientation(ev.file, ev.orientation)]
    /\ UNCHANGED <<loader, config, ui, mutex, cpc, wpc, wlocals>>

NextDecode == call_open_and_resize_image

SpecDecode == InitDecode /\ [][NextDecode]_vars

\* ------------------------------------------------- slideshow specification
\* The slideshow timer thread, its channel, the events it sends to the event
\* loop and the handlers of the event loop that read or write State.paused.
\* The handlers run one at a time, to their end; no image loader thread runs
\* (cache_extent is 0, so nothing is ever planned for it).
MaxTimerLen == 2
MaxTimerSecs == 5
MaxChannel == 2
MaxEvents == 1

TIMER_VALUE_INCREMENT == 5

Play == [t |-> "Play", secs |-> 0]
Pause == [t |-> "Pause", secs |-> 0]
Change(secs) == [t |-> "Change", secs |-> secs]

\* u32::saturating_sub, u32::saturating_add (the model stops at MaxTimerSecs)
saturating_sub(a, b) == IF a < b THEN 0 ELSE a - b
saturating_add(a, b) == a + b

is_last_overflows == Len(scanned_paths) = 0

is_last_first == current_index = 0

\* ImageLoader::is_last
is_last == current_index = (Len(scanned_paths) - 1) % (UsizeMax + 1)

InitTimer ==
    /\ scanned_paths \in {[i \in 1..k |-> "a.png"] : k \in 0..MaxTimerLen}
    /\ current_index = 0
    /\ cache = ensure_cache(EmptyCache, 0)
    /\ preload_queue = <<>>
    /\ cache_extent = 0
    /\ overflow_checks \in BOOLEAN
    /\ scan_subfolders = FALSE
    /\ lock = "none"
    /\ poisoned = FALSE
    /\ cpc = "idle"
    /\ wpc = "dequeue"
    /\ idx = 0
    /\ load_needed = FALSE
    /\ prev_load_needed = FALSE
    /\ path = NoPath
    /\ default_timer_secs \in {0, TIMER_VALUE_INCREMENT}
    /\ current_timer_secs = default_timer_secs
    /\ paused = (default_timer_secs = 0)
    /\ pause_at_last \in BOOLEAN
    /\ timer_pc = "recv_timeout"
    /\ timer_dur = default_timer_secs
    /\ timer_paused = (default_timer_secs = 0)
    \* State::new ends with draw_current_image
    /\ rx_slideshow_timer = IF paused THEN <<>> ELSE <<Play>>
    /\ user_events = <<>>
    /\ main_pc = "run"
    /\ conf_fullscreen = FALSE
    /\ fullscreen_active = FALSE
    /\ fullscreen_elapsed = 0
    /\ window_fullscreen = FALSE
    /\ cursor_auto_hide = FALSE
    /\ sleeping = FALSE
    /\ rx_mouse_cursor_watcher = 0
    /\ cursor_visible = TRUE
    /\ last_cursor_event = "none"
    /\ ev = [op |-> "init"]

\* slideshow timer thread: while paused | dur.is_zero()
timer_waits(p, dur) == IF p \/ dur = 0 THEN "recv" ELSE "recv_timeout"

\* slideshow timer thread: recv_timeout(dur) returns a message
timer_recv_timeout ==
    /\ timer_pc = "recv_timeout" /\ rx_slideshow_timer # <<>>
    /\ LET state == Head(rx_slideshow_timer)
       IN  /\ timer_dur' = IF state.t = "Change" THEN state.secs ELSE timer_dur
           /\ timer_paused' = IF state.t = "Pause" THEN TRUE ELSE timer_paused
    /\ rx_slideshow_timer' = Tail(rx_slideshow_timer)
    /\ timer_pc' = timer_waits(timer_paused', timer_dur')
    /\ ev' = [op |-> "timer_recv_timeout"]
    /\ UNCHANGED <<loader, config, mutex, cpc, wpc, wlocals, paused,
                   pause_at_last, current_timer_secs, default_timer_secs,
                   user_events, window>>

\* slideshow timer thread: recv_timeout(dur) returns Timeout (no message has
\* arrived within dur; at once when dur is zero)
timer_timeout ==
    /\ timer_pc = "recv_timeout" /\ rx_slideshow_timer = <<>>
    /\ timer_pc' = "send_event"
    /\ ev' = [op |-> "timer_timeout", dur |-> timer_dur]
    /\ UNCHANGED <<loader, config, mutex, cpc, wpc, wlocals, paused,
                   pause_at_last, current_timer_secs, default_timer_secs,
                   timer_dur, timer_paused, rx_slideshow_timer, user_events,
                   window>>

\* slideshow timer thread: proxy.send_event(CustomEvent::NextImage)
timer_send_event ==
    /\ timer_pc = "send_event"
    /\ Len(user_events) < MaxEvents
    /\ user_events' = Append(user_events, "NextImage")
    /\ timer_pc' = timer_waits(timer_paused, timer_dur)
    /\ ev' = [op |-> "timer_send_event", dur |-> timer_dur]
    /\ UNCHANGED <<loader, config, mutex, cpc, wpc, wlocals, paused,
                   pause_at_last, current_timer_secs, default_timer_secs,
                   timer_dur, timer_paused, rx_slideshow_timer, window>>

\* slideshow timer thread: recv() inside the while loop
timer_recv ==
    /\ timer_pc = "recv" /\ rx_slideshow_timer # <<>>
    /\ LET state == Head(rx_slideshow_timer)
       IN  /\ timer_dur' = IF state.t = "Change" THEN state.secs ELSE timer_dur
           /\ timer_paused' = IF state.t = "Play" THEN FALSE ELSE timer_paused
    /\ rx_slideshow_timer' = Tail(rx_slideshow_timer)
    /\ timer_pc' = timer_waits(timer_paused', timer_dur')
    /\ ev' = [op |-> "timer_recv"]
    /\ UNCHANGED <<loader, config, mutex, cpc, wpc, wlocals, paused,
                   pause_at_last, current_timer_secs, default_timer_secs,
                   user_events, window>>

\* State::next_image(amount) with the draw_current_image that ends it: Play
\* is sent unless State.paused, then get_current runs
slideshow_next_image(amount, by) ==
    /\ Len(rx_slideshow_timer) + (IF paused THEN 0 ELSE 1) <= MaxChannel
    /\ UNCHANGED <<scanned_paths, config, mutex, cpc, wpc, wlocals, paused,
                   pause_at_last, current_timer_secs, default_timer_secs,
                   timer_pc, timer_dur, timer_paused, window>>
    /\ current_index' = (IF get_next_index(amount) = {} THEN current_index
                         ELSE CHOOSE x \in get_next_index(amount) : TRUE)
    /\ rx_slideshow_timer' = IF paused THEN rx_slideshow_timer
                             ELSE Append(rx_slideshow_timer, Play)
    /\ cache' = ensure_cache(cache, current_index')
    /\ preload_queue' = get_current_queue(<<>>)'
    /\ ev' = [op |-> by, at_last |-> FALSE]

\* keys and buttons that navigate: State::next_image(amount)
navigate(amount) ==
    /\ Running
    /\ slideshow_next_image(amount, "navigate")
    /\ UNCHANGED user_events

\* CustomEvent::NextImage
NextImage ==
    /\ Running
    /\ user_events # <<>> /\ Head(user_events) = "NextImage"
    /\ user_events' = Tail(user_events)
    /\ \/ /\ pause_at_last /\ is_last_overflows /\ overflow_checks
          \* len() - 1 leaves usize inside is_last, the lock is held
          /\ poisoned' = TRUE
          /\ cpc' = "panicked"
          /\ ev' = [op |-> "panic", by |-> "consumer", at |-> "overflow"]
          /\ UNCHANGED <<loader, config, lock, wpc, wlocals, slideshow, window>>
       \/ /\ pause_at_last /\ ~(is_last_overflows /\ overflow_checks)
          /\ is_last
          /\ paused' = TRUE
          /\ ev' = [op |-> "NextImage", at_last |-> TRUE]
          /\ UNCHANGED <<loader, config, mutex, cpc, wpc, wlocals,
                         pause_at_last, current_timer_secs, default_timer_secs,
                         timer_pc, timer_dur, timer_paused, rx_slideshow_timer,
                         window>>
       \/ /\ ~pause_at_last \/ (~(is_last_overflows /\ overflow_checks) /\ ~is_last)
          /\ slideshow_next_image(1, "NextImage")

\* Space | P: toggle pause
toggle_pause ==
    /\ Running
    /\ Len(rx_slideshow_timer) < MaxChannel
    /\ rx_slideshow_timer' =
          Append(rx_slideshow_timer, IF paused THEN Play ELSE Pause)
    /\ paused' = ~paused
    /\ ev' = [op |-> "toggle_pause"]
    /\ UNCHANGED <<loader, config, mutex, cpc, wpc, wlocals, pause_at_last,
                   current_timer_secs, default_timer_secs, timer_pc, timer_dur,
                   timer_paused, user_events, window>>

\* Pause key
pause ==
    /\ Running
    /\ Len(rx_slideshow_timer) < MaxChannel
    /\ paused' = TRUE
    /\ rx_slideshow_timer' = Append(rx_slideshow_timer, Pause)
    /\ ev' = [op |-> "pause"]
    /\ UNCHANGED <<loader, config, mutex, cpc, wpc, wlocals, pause_at_last,
                   current_timer_secs, default_timer_secs, timer_pc, timer_dur,
                   timer_paused, user_events, window>>

\* L: toggle pause at last
toggle_pause_at_last ==
    /\ Running
    /\ pause_at_last' = ~pause_at_last
    /\ ev' = [op |-> "toggle_pause_at_last"]
    /\ UNCHANGED <<loader, config, mutex, cpc, wpc, wlocals, paused,
                   current_timer_secs, default_timer_secs, timer_pc, timer_dur,
                   timer_paused, rx_slideshow_timer, user_events, window>>

\* LBracket, RBracket, Back: the display time becomes secs
change_timer(secs) ==
    /\ Running
    /\ secs <= MaxTimerSecs
    /\ Len(rx_slideshow_timer) + (IF paused THEN 2 ELSE 1) <= MaxChannel
    /\ current_timer_secs' = secs
    /\ rx_slideshow_timer' =
          IF paused THEN rx_slideshow_timer \o <<Change(secs), Pause>>
          ELSE Append(rx_slideshow_timer, Change(secs))
    /\ ev' = [op |-> "change_timer"]
    /\ UNCHANGED <<loader, config, mutex, cpc, wpc, wlocals, paused,
                   pause_at_last, default_timer_secs, timer_pc, timer_dur,
                   timer_paused, user_events, window>>

NextTimer ==
    \/ timer_recv_timeout
    \/ timer_timeout
    \/ timer_send_event
    \/ timer_recv
    \/ \E amount \in {1, -1} : navigate(amount)
    \/ NextImage
    \/ toggle_pause
    \/ pause
    \/ toggle_pause_at_last
    \/ change_timer(saturating_sub(current_timer_secs, TIMER_VALUE_INCREMENT))
    \/ change_timer(saturating_add(current_timer_secs, TIMER_VALUE_INCREMENT))
    \/ change_timer(default_timer_secs)

SpecTimer == InitTimer /\ [][NextTimer]_vars

\* ---------------------------------------------------- window specification
\* The set-up of the FullscreenController in main, the handlers that toggle
\* fullscreen, the mouse cursor autohide thread, its channel and the two
\* events it sends. The slideshow is paused (timer 0), so the
\* draw_current_image that follows a toggle sends nothing to the timer.
MaxCursorMoves == 2
MaxCursorEvents == 2

\* milliseconds
FULLSCREEN_CHANGE_INTERVAL == 300

\* FullscreenController::limit_reached: last_time.elapsed() <= rate_limit
limit_reached == fullscreen_elapsed <= FULLSCREEN_CHANGE_INTERVAL

\* FullscreenController::enable
enable ==
    IF limit_reached
    THEN UNCHANGED <<window_fullscreen, fullscreen_active, fullscreen_elapsed>>
    ELSE /\ window_fullscreen' = TRUE
         /\ fullscreen_active' = TRUE
         /\ fullscreen_elapsed' = 0

\* FullscreenController::disable
disable ==
    IF limit_reached
    THEN UNCHANGED <<window_fullscreen, fullscreen_active, fullscreen_elapsed>>
    ELSE /\ window_fullscreen' = FALSE
         /\ fullscreen_active' = FALSE
         /\ fullscreen_elapsed' = 0

\* FullscreenController::toggle
toggle == IF window_fullscreen THEN disable ELSE enable

\* main has built the window and the FullscreenController, last_time is
\* Instant::now(); no thread is spawned yet
InitWindow ==
    /\ scanned_paths = <<"a.png">>
    /\ current_index = 0
    /\ cache = ensure_cache(EmptyCache, 0)
    /\ preload_queue = <<>>
    /\ cache_extent = 0
    /\ overflow_checks = FALSE
    /\ scan_subfolders = FALSE
    /\ lock = "none"
    /\ poisoned = FALSE
    /\ cpc = "idle"
    /\ wpc = "dequeue"
    /\ idx = 0
    /\ load_needed = FALSE
    /\ prev_load_needed = FALSE
    /\ path = NoPath
    /\ paused = TRUE
    /\ pause_at_last = FALSE
    /\ current_timer_secs = 0
    /\ default_timer_secs = 0
    /\ timer_pc = "recv"
    /\ timer_dur = 0
    /\ timer_paused = TRUE
    /\ rx_slideshow_timer = <<>>
    /\ user_events = <<>>
    /\ main_pc = "setup"
    /\ conf_fullscreen \in BOOLEAN
    /\ fullscreen_active = FALSE
    /\ fullscreen_elapsed = 0
    /\ window_fullscreen = FALSE
    /\ cursor_auto_hide \in BOOLEAN
    /\ sleeping = FALSE
    /\ rx_mouse_cursor_watcher = 0
    /\ cursor_visible = TRUE
    /\ last_cursor_event = "none"
    /\ ev = [op |-> "init"]

\* time passes since last_time: to the rate limit exactly, or beyond it
time_passes ==
    /\ \E t \in {FULLSCREEN_CHANGE_INTERVAL, FULLSCREEN_CHANGE_INTERVAL + 1} :
          /\ t > fullscreen_elapsed
          /\ fullscreen_elapsed' = t
    /\ ev' = [op |-> "time_passes"]
    /\ UNCHANGED <<loader, config, mutex, cpc, wpc, wlocals, slideshow,
                   user_events, main_pc, conf_fullscreen, fullscreen_active,
                   window_fullscreen, cursor_auto_hide, sleeping,
                   rx_mouse_cursor_watcher, cursor_visible, last_cursor_event>>

\* main: if conf.window.fullscreen { fullscreen_controller.enable() }, then
\* the threads are spawned and the event loop runs
setup_fullscreen ==
    /\ main_pc = "setup"
    /\ main_pc' = "run"
    /\ IF conf_fullscreen THEN enable
       ELSE UNCHANGED <<window_fullscreen, fullscreen_active,
                        fullscreen_elapsed>>
    /\ ev' = [op |-> "setup_fullscreen"]
    /\ UNCHANGED <<loader, config, mutex, cpc, wpc, wlocals, slideshow,
                   user_events, conf_fullscreen, cursor_auto_hide, sleeping,
                   rx_mouse_cursor_watcher, cursor_visible, last_cursor_event>>

\* F | F11, Alt+Return, double click, multi-finger tap
toggle_fullscreen ==
    /\ main_pc = "run"
    /\ toggle
    /\ ev' = [op |-> "toggle_fullscreen"]
    /\ UNCHANGED <<loader, config, mutex, cpc, wpc, wlocals, slideshow,
                   user_events, main_pc, conf_fullscreen, cursor_auto_hide,
                   sleeping, rx_mouse_cursor_watcher, cursor_visible,
                   last_cursor_event>>

\* WindowEvent::CursorMoved: () is sent to the watcher; a drag of a
\* fullscreen window toggles fullscreen
CursorMoved ==
    /\ main_pc = "run"
    /\ rx_mouse_cursor_watcher < MaxCursorMoves
    /\ rx_mouse_cursor_watcher' = rx_mouse_cursor_watcher + 1
    /\ \E dragging \in BOOLEAN :
          /\ IF dragging /\ window_fullscreen THEN toggle
             ELSE UNCHANGED <<window_fullscreen, fullscreen_active,
                              fullscreen_elapsed>>
          /\ ev' = [op |-> "CursorMoved", dragging |-> dragging]
    /\ UNCHANGED <<loader, config, mutex, cpc, wpc, wlocals, slideshow,
                   user_events, main_pc, conf_fullscreen, cursor_auto_hide,
                   sleeping, cursor_visible, last_cursor_event>>

cursor_timeout_stays_awake ==
    /\ main_pc = "run" /\ cursor_auto_hide
    /\ rx_mouse_cursor_watcher = 0
    /\ IF ~sleeping
       THEN /\ Len(user_events) < MaxCursorEvents
            /\ user_events' = Append(user_events, "MouseCursorSleep")
            /\ UNCHANGED sleeping
            /\ last_cursor_event' = "Sleep"
            /\ ev' = [op |-> "cursor_timeout", sent |-> "Sleep"]
       ELSE /\ UNCHANGED <<user_events, sleeping, last_cursor_event>>
            /\ ev' = [op |-> "cursor_timeout", sent |-> "none"]
    /\ UNCHANGED <<loader, config, mutex, cpc, wpc, wlocals, slideshow,
                   main_pc, conf_fullscreen, fullscreen_active,
                   fullscreen_elapsed, window_fullscreen, cursor_auto_hide,
                   rx_mouse_cursor_watcher, cursor_visible>>

\* mouse cursor autohide thread: recv_timeout(dur) returns Timeout
cursor_timeout ==
    /\ main_pc = "run" /\ cursor_auto_hide
    /\ rx_mouse_cursor_watcher = 0
    /\ IF ~sleeping
       THEN /\ Len(user_events) < MaxCursorEvents
            /\ user_events' = Append(user_events, "MouseCursorSleep")
            /\ sleeping' = TRUE
            /\ last_cursor_event' = "Sleep"
            /\ ev' = [op |-> "cursor_timeout", sent |-> "Sleep"]
       ELSE /\ UNCHANGED <<user_events, sleeping, last_cursor_event>>
            /\ ev' = [op |-> "cursor_timeout", sent |-> "none"]
    /\ UNCHANGED <<loader, config, mutex, cpc, wpc, wlocals, slideshow,
                   main_pc, conf_fullscreen, fullscreen_active,
                   fullscreen_elapsed, window_fullscreen, cursor_auto_hide,
                   rx_mouse_cursor_watcher, cursor_visible>>

\* mouse cursor autohide thread: recv_timeout(dur) returns a message
cursor_recv_timeout ==
    /\ main_pc = "run" /\ cursor_auto_hide
    /\ rx_mouse_cursor_watcher > 0
    /\ rx_mouse_cursor_watcher' = rx_mouse_cursor_watcher - 1
    /\ IF sleeping
       THEN /\ Len(user_events) < MaxCursorEvents
            /\ user_events' = Append(user_events, "MouseCursorAwake")
            /\ sleeping' = FALSE
            /\ last_cursor_event' = "Awake"
            /\ ev' = [op |-> "cursor_recv_timeout", sent |-> "Awake"]
       ELSE /\ UNCHANGED <<user_events, sleeping, last_cursor_event>>
            /\ ev' = [op |-> "cursor_recv_timeout", sent |-> "none"]
    /\ UNCHANGED <<loader, config, mutex, cpc, wpc, wlocals, slideshow,
                   main_pc, conf_fullscreen, fullscreen_active,
                   fullscreen_elapsed, window_fullscreen, cursor_auto_hide,
                   cursor_visible>>

\* the thread spawned without cursor_auto_hide: loop { recv() }
cursor_recv ==
    /\ main_pc = "run" /\ ~cursor_auto_hide
    /\ rx_mouse_cursor_watcher > 0
    /\ rx_mouse_cursor_watcher' = rx_mouse_cursor_watcher - 1
    /\ ev' = [op |-> "cursor_recv", sent |-> "none"]
    /\ UNCHANGED <<loader, config, mutex, cpc, wpc, wlocals, slideshow,
                   user_events, main_pc, conf_fullscreen, fullscreen_active,
                   fullscreen_elapsed, window_fullscreen, cursor_auto_hide,
                   sleeping, cursor_visible, last_cursor_event>>

\* CustomEvent::MouseCursorAwake
MouseCursorAwake ==
    /\ main_pc = "run"
    /\ user_events # <<>> /\ Head(user_events) = "MouseCursorAwake"
    /\ user_events' = Tail(user_events)
    /\ cursor_visible' = TRUE
    /\ ev' = [op |-> "MouseCursorAwake"]
    /\ UNCHANGED <<loader, config, mutex, cpc, wpc, wlocals, slideshow,
                   main_pc, conf_fullscreen, fullscreen_active,
                   fullscreen_elapsed, window_fullscreen, cursor_auto_hide,
                   sleeping, rx_mouse_cursor_watcher, last_cursor_event>>

\* CustomEvent::MouseCursorSleep
MouseCursorSleep ==
    /\ main_pc = "run"
    /\ user_events # <<>> /\ Head(user_events) = "MouseCursorSleep"
    /\ user_events' = Tail(user_events)
    /\ cursor_visible' = FALSE
    /\ ev' = [op |-> "MouseCursorSleep"]
    /\ UNCHANGED <<loader, config, mutex, cpc, wpc, wlocals, slideshow,
                   main_pc, conf_fullscreen, fullscreen_active,
                   fullscreen_elapsed, window_fullscreen, cursor_auto_hide,
                   sleeping, rx_mouse_cursor_watcher, last_cursor_event>>

NextWindow ==
    \/ time_passes
    \/ setup_fullscreen
    \/ toggle_fullscreen
    \/ CursorMoved
    \/ cursor_timeout
    \/ cursor_recv_timeout
    \/ cursor_recv
    \/ MouseCursorAwake
    \/ MouseCursorSleep

SpecWindow == InitWindow /\ [][NextWindow]_vars

\* ---------------------------------------------------------------- claims
NoDuplicates(q) == \A i, j \in 1..Len(q) : q[i] = q[j] => i = j
MinOf2(x, y) == IF x <= y THEN x ELSE y

\* The plan of section 4.4 for position p, catalog size len and radius r:
\* p+1, p-1, p+2, p-2, ..., p+r, p-r, each modulo len; empty when len <= 1.
Plan(p, len, r) ==
    IF len <= 1 THEN <<>>
    ELSE [k \in 1..(2 * r) |-> IF k % 2 = 1 THEN (p + (k + 1) \div 2) % len
                                            ELSE (p - k \div 2) % len]

\* C1: whatever inserts have built the cache, every cache that limit_cache
\* can return for it holds at most 2*cache_extent + 1 entries, and the
\* cache left by a call of limit_cache that returned holds at most that many.
C1_TrimBoundsCache ==
    /\ \A c \in limit_cache(cache) :
          Cardinality(DOMAIN c) <= 2 * cache_extent + 1
    /\ ev.op = "limit_cache" =>
          Cardinality(DOMAIN cache) <= 2 * cache_extent + 1

\* limit_cache has just removed entries from a cache that was over capacity
C1_Witness ==
    /\ ev.op = "limit_cache" /\ ev.removed > 0
    /\ Cardinality(DOMAIN cache) = 2 * cache_extent + 1

\* C2: get_current returns Ok, never Err, and when it returns the cache
\* holds an entry for the current position.
C2_GetCurrentResolves ==
    ev.op = "get_current" =>
        ev.ret = "Ok" /\ current_index \in DOMAIN cache

\* get_current has resolved a position of an empty catalog by a placeholder
\* while the worker had nothing planned for it
C2_Witness ==
    /\ ev.op = "get_current" /\ ev.ret = "Ok"
    /\ scanned_paths = <<>>
    /\ cache[current_index] = Placeholder

C4_StaleIndexHandled ==
    ~(ev.op = "panic" /\ ev.by = "worker" /\ ev.at = "unwrap")

\* C5: the insert of the worker never finds an entry already present at the
\* index it inserts.
C5_WorkerNeverOverwrites ==
    ev.op = "insert" => ~ev.present

\* C6: the queue built by get_current is (p+1) mod len, (p-1) mod len, ...,
\* (p+r) mod len, (p-r) mod len, of length 2r, when len >= 2, and empty when
\* len <= 1; for p = 5, len = 10, r = 2 it is <<6, 4, 7, 3>>.
C6_PlanIsAlternating ==
    ev.op = "get_current_queue" =>
        LET p == current_index
            len == Len(scanned_paths)
            r == cache_extent
        IN  /\ len <= 1 => preload_queue = <<>>
            /\ len >= 2 =>
                  /\ Len(preload_queue) = 2 * r
                  /\ \A i \in 1..r :
                        /\ preload_queue[2 * i - 1] = (p + i) % len
                        /\ preload_queue[2 * i] = (p - i) % len
            /\ (p = 5 /\ len = 10 /\ r = 2) => preload_queue = <<6, 4, 7, 3>>

\* the example of the specification
C6_Witness ==
    /\ ev.op = "get_current_queue"
    /\ current_index = 5 /\ Len(scanned_paths) = 10 /\ cache_extent = 2
    /\ preload_queue = <<6, 4, 7, 3>>

\* C7 as stated: the queue built by get_current holds no index twice.
C7_PlanHasNoDuplicates ==
    ev.op = "get_current_queue" => NoDuplicates(preload_queue)

\* C7 amended: the queue built by get_current holds no index twice exactly
\* when len <= 1 or len > 2*cache_extent.
C7_PlanDuplicatesIffSmall ==
    ev.op = "get_current_queue" =>
        (NoDuplicates(preload_queue) <=>
            (Len(scanned_paths) <= 1 \/ Len(scanned_paths) > 2 * cache_extent))

\* a full plan without duplicates
C7_Witness ==
    /\ ev.op = "get_current_queue"
    /\ Len(scanned_paths) > 2 * cache_extent
    /\ Len(preload_queue) = 2 * MaxPureExtent
    /\ NoDuplicates(preload_queue)

\* C8: when get_current returns, the queue is the plan of the position of
\* that call, whatever the queue held before.
C8_QueueFullyReplaced ==
    ev.op = "get_current" =>
        preload_queue = Plan(current_index, Len(scanned_paths), cache_extent)

\* get_current has dropped an index of the plan before
C8_Witness ==
    /\ ev.op = "get_current" /\ ev.stale
    /\ preload_queue # <<>>

\* C9: for 0 <= a, b < len, index_distance(a, b) = index_distance(b, a) and
\* 0 <= index_distance(a, b) <= len / 2.
C9_DistanceSymmetricBounded ==
    ev.op = "index_distance" =>
        /\ ev.ret = index_distance(ev.b, ev.a)
        /\ 0 <= ev.ret
        /\ ev.ret <= Len(scanned_paths) \div 2

\* a distance that reaches len / 2
C9_Witness ==
    /\ ev.op = "index_distance" /\ ev.a # ev.b
    /\ ev.ret = Len(scanned_paths) \div 2

\* C10: for 0 <= a, b < len, index_distance(a, b) is the smaller of
\* (a - b) mod len and (b - a) mod len.
C10_DistanceIsShortest ==
    ev.op = "index_distance" =>
        ev.ret = MinOf2((ev.a - ev.b) % Len(scanned_paths),
                        (ev.b - ev.a) % Len(scanned_paths))

\* a distance taken around the end of an odd ring
C10_Witness ==
    /\ ev.op = "index_distance"
    /\ Len(scanned_paths) % 2 = 1
    /\ ev.a - ev.b > Len(scanned_paths) \div 2
    /\ ev.ret = Len(scanned_paths) - (ev.a - ev.b)

\* C11: next_index(amount) on a catalog of len >= 2 files sets the position
\* to (position + amount) mod len, a value of 0..len-1, for amounts of either
\* sign and larger than len; with len <= 1 it leaves the position unchanged.
C11_AdvanceWraps ==
    ev.op = "next_index" =>
        LET len == Len(scanned_paths)
        IN  IF len >= 2
            THEN /\ current_index = (ev.from + ev.amount) % len
                 /\ current_index \in 0..(len - 1)
            ELSE current_index = ev.from

\* the example of the specification: len = 10, position 0, amount -1 gives 9
C11_Witness ==
    /\ ev.op = "next_index"
    /\ Len(scanned_paths) = 10 /\ ev.from = 0 /\ ev.amount = -1
    /\ current_index = 9

\* The circular distance of section 4.2 on a ring of len indices.
RingDistance(a, b, len) == MinOf2((a - b) % len, (b - a) % len)

\* The distance of the entry at key k from the current position: the
\* circular distance for an index of the catalog, and what index_distance
\* computes for a key that a replaced catalog has left behind.
DistanceOfKey(k) ==
    IF k < Len(scanned_paths) /\ current_index < Len(scanned_paths)
    THEN RingDistance(current_index, k, Len(scanned_paths))
    ELSE index_distance(current_index, k)

\* C12: limit_cache evicts farthest-first: no entry it keeps is farther
\* from the current position than an entry it removes, for every cache it
\* can return and for the call that has just returned.
C12_TrimFarthestFirst ==
    /\ \A c \in limit_cache(cache) :
          \A k \in DOMAIN cache \ DOMAIN c, j \in DOMAIN c :
              DistanceOfKey(k) >= DistanceOfKey(j)
    /\ ev.op = "limit_cache" =>
          \A k \in ev.gone, j \in DOMAIN cache :
              DistanceOfKey(k) >= DistanceOfKey(j)

\* limit_cache has removed an index of the catalog and kept a nearer one
C12_Witness ==
    /\ ev.op = "limit_cache"
    /\ \E k \in ev.gone, j \in DOMAIN cache :
          /\ k < Len(scanned_paths)
          /\ DistanceOfKey(k) > DistanceOfKey(j)
          /\ j # current_index

\* C13: the worker calls limit_cache in an iteration exactly when the
\* iteration before it decoded and this one does not (empty queue, or an
\* index already in the cache); an iteration that decodes ends without it.
C13_TrimOnFallingEdge ==
    [][ /\ (wpc = "insert" /\ wpc' # "insert") =>
              wpc' \in {"dequeue", "panicked"}
        /\ (wpc = "insert" /\ wpc' = "dequeue") => prev_load_needed'
        /\ (wpc = "dequeue" /\ ev'.op = "dequeue") =>
              /\ wpc' = "load" <=> load_needed'
              /\ wpc' = "limit" <=> (prev_load_needed /\ ~load_needed')
              /\ wpc' = "dequeue" <=> (~prev_load_needed /\ ~load_needed')
              /\ wpc' = "dequeue" => ~prev_load_needed'
        /\ (wpc = "limit" /\ wpc' # "limit") =>
              /\ prev_load_needed /\ ~load_needed
              /\ wpc' = "dequeue" => ~prev_load_needed'
        /\ ev'.op = "limit_cache" => wpc = "limit"
      ]_vars

\* limit_cache has run in an iteration that popped an index already in the
\* cache, after an iteration that decoded
C13_Witness ==
    /\ ev.op = "limit_cache"
    /\ path # NoPath /\ ~load_needed /\ ~prev_load_needed
    /\ idx \in DOMAIN cache

\* A step of the image loader thread (every handler of the event loop
\* records another operation).
WorkerStep ==
    \/ ev'.op \in {"dequeue", "insert", "limit_cache", "skip"}
    \/ ev'.op \in {"decode", "panic"} /\ ev'.by = "worker"

OverCapacity == Cardinality(DOMAIN cache) > 2 * cache_extent + 1

\* C14: once the event loop issues no further request, the cache does not
\* stay over 2*cache_extent + 1 entries: the worker trims it.
C14_CacheReturnsToCapacity ==
    <>[][WorkerStep]_vars => <>[]~OverCapacity

\* The queue is drained and every index of the catalog within cache_extent
\* of the current position is in the cache.
Preloaded ==
    /\ preload_queue = <<>>
    /\ \A i \in 0..(Len(scanned_paths) - 1) :
          RingDistance(current_index, i, Len(scanned_paths)) <= cache_extent
              => i \in DOMAIN cache

\* C15: after a call of get_current that no further request and no change
\* of the catalog follows, the queue eventually becomes empty and the
\* neighbours within cache_extent are in the cache, and stay there.
C15_PreloadCompletes ==
    (<>(ev.op \in {"get_current", "drop"}) /\ <>[][WorkerStep]_vars)
        => <>[]Preloaded

\* What a failed decode of path p leaves in the cache.
FailedEntry(p) == [path |-> p, image |-> "1x1", emsg |-> TRUE]

\* C16: a decode that fails for the path P at index i leaves at i an entry
\* with path P, a 1x1 buffer and an error message, in ensure_cache and in
\* the worker alike; get_current then returns Ok and the worker goes on to
\* its next iteration.
C16_DecodeFailureIsAnEntry ==
    /\ \A k \in DOMAIN cache :
          cache[k].path \in BadFiles => cache[k] = FailedEntry(cache[k].path)
    /\ (/\ ev.op = "get_current" /\ ev.decoded
        /\ scanned_paths[current_index + 1] \in BadFiles) =>
          /\ ev.ret = "Ok"
          /\ cache[current_index] = FailedEntry(scanned_paths[current_index + 1])
          /\ cpc = "idle"
    /\ (ev.op = "insert" /\ path \in BadFiles) =>
          /\ cache[idx] = FailedEntry(path)
          /\ wpc = "dequeue"

\* the worker has inserted the entry of a failed decode next to one that
\* get_current made for the current position
C16_Witness ==
    /\ ev.op = "insert" /\ path \in BadFiles
    /\ cache[idx] = FailedEntry(path)
    /\ idx # current_index
    /\ current_index \in DOMAIN cache
    /\ cache[current_index] = FailedEntry(path)

C18_PositionInCatalog ==
    Len(scanned_paths) > 0 => current_index \in 0..(Len(scanned_paths) - 1)

\* the position is the last index of a catalog, reached by last_image
C18_Witness ==
    /\ ev.op = "last_image"
    /\ Len(scanned_paths) >= 3
    /\ current_index = Len(scanned_paths) - 1

\* C19: a step changes the shared ImageLoader only when the lock is free
\* (the step takes and releases it) or held by the thread that takes the
\* step; a thread that holds the lock is not at a place where it locks
\* again; and a held lock can always be released by its holder.
C19_LockDiscipline ==
    /\ [][ loader' # loader =>
              \/ lock = "none"
              \/ lock = "consumer" /\ ~WorkerStep
              \/ lock = "worker" /\ WorkerStep ]_vars
    /\ [](lock = "consumer" => cpc \in {"get_current", "force_reload_cache"})
    /\ [](lock = "worker" => wpc \notin {"dequeue", "insert", "limit"})
    /\ [](lock # "none" => ENABLED (get_current \/ force_reload_cache))

\* the event loop holds the lock in the drop handler while the worker has
\* arrived at one of its critical sections
C19_Witness ==
    /\ lock = "consumer" /\ cpc = "force_reload_cache"
    /\ wpc \in {"dequeue", "insert", "limit"}

\* C20: the worker that has popped an index it has to load keeps the index
\* and the path and takes no other step than the decode and the insert of
\* the result at that index, and it does take it, whatever the event loop
\* does to the position, the queue and the catalog meanwhile.
C20_DecodeIsNotCancelled ==
    /\ [][ (wpc = "insert") =>
              /\ idx' = idx /\ path' = path
              /\ wpc' # "insert" =>
                    /\ wpc' = "dequeue"
                    /\ idx \in DOMAIN cache'
                    /\ cache'[idx] = ImageCache(path)
      ]_vars
    /\ (wpc = "insert") ~> (ev.op = "insert")

\* the worker has inserted an index that the queue no longer plans, after
\* the event loop has moved the position and replaced the queue
C20_Witness ==
    /\ ev.op = "insert" /\ ~ev.present
    /\ idx # current_index
    /\ preload_queue # <<>> /\ idx \notin Range(preload_queue)

\* C21 as stated: limit_cache called on an empty cache returns an error.
C21_TrimOnEmptyIsError ==
    (ev.op = "limit_cache" /\ ev.gone = {} /\ cache = EmptyCache) =>
        ev.ret = "Err"

\* C21 amended: limit_cache called on an empty cache returns Ok and leaves
\* the cache empty.
C21_TrimOnEmptyIsOk ==
    /\ cache = EmptyCache =>
          limit_cache_result(cache) = "Ok" /\ limit_cache(cache) = {EmptyCache}
    /\ (ev.op = "limit_cache" /\ ev.gone = {} /\ cache = EmptyCache) =>
          ev.ret = "Ok"

\* limit_cache has returned from a call on an empty cache
C21_Witness ==
    /\ ev.op = "limit_cache" /\ ev.gone = {} /\ cache = EmptyCache
    /\ ev.ret = "Ok"
    /\ Len(scanned_paths) > 0

\* C22 as stated: a step removes a key from the cache only if it is a call
\* of limit_cache.
C22_OnlyTrimRemoves ==
    [][ (DOMAIN cache \ DOMAIN cache' # {}) => ev'.op = "limit_cache" ]_vars

\* C22 amended: a step removes a key from the cache only if it is a call of
\* limit_cache or the DroppedFile handler starting a new catalog (which
\* clears the cache); navigation, get_current, force_reload_cache, the
\* worker's insert and an appending drop remove none.
C22_OnlyTrimAndNewDropRemove ==
    [][ (DOMAIN cache \ DOMAIN cache' # {}) =>
            \/ ev'.op = "limit_cache"
            \/ ev'.op = "drop" /\ ev'.new ]_vars

\* a drop has started a new catalog and cleared a cache that held the
\* entries of a drawn position
C22_Witness ==
    /\ ev.op = "drop" /\ ev.new
    /\ cache = EmptyCache /\ cpc = "force_reload_cache"
    /\ preload_queue # <<>>

\* The entries of q are in non-decreasing circular distance from p.
NearToFar(q, p, len) ==
    \A i \in 1..(Len(q) - 1) :
        RingDistance(p, q[i], len) <= RingDistance(p, q[i + 1], len)

\* C23 as stated: for every catalog of len >= 2, position and cache_extent,
\* the queue built by get_current is in non-decreasing distance from the
\* position.
C23_PlanNearToFar ==
    (ev.op = "get_current_queue" /\ Len(scanned_paths) >= 2) =>
        NearToFar(preload_queue, current_index, Len(scanned_paths))

\* C23 amended: for len >= 2 the queue built by get_current is in
\* non-decreasing distance from the position exactly when
\* 2*cache_extent <= len + 1.
C23_PlanNearToFarIffFits ==
    (ev.op = "get_current_queue" /\ Len(scanned_paths) >= 2) =>
        (NearToFar(preload_queue, current_index, Len(scanned_paths))
            <=> 2 * cache_extent <= Len(scanned_paths) + 1)

\* a plan that goes once around a ring of three and is still near-to-far
C23_Witness ==
    /\ ev.op = "get_current_queue"
    /\ Len(scanned_paths) = 3 /\ cache_extent = 2
    /\ Len(preload_queue) = 4
    /\ NearToFar(preload_queue, current_index, 3)

\* C24: a drop that only calls append_path leaves the catalog it found
\* followed by the files the scan found, so no catalogued path changes
\* index, and leaves the position, the cache and the preload queue alone.
C24_AppendExtends ==
    [][ (ev'.op = "drop" /\ ~ev'.new /\ ~poisoned) =>
            /\ \E found \in Scanned(MaxDrop) :
                   scanned_paths' = scanned_paths \o found
            /\ \A i \in 1..Len(scanned_paths) :
                   /\ i <= Len(scanned_paths')
                   /\ scanned_paths'[i] = scanned_paths[i]
            /\ UNCHANGED <<current_index, cache, preload_queue>>
      ]_vars

\* a catalog of two was drawn at position 0 (queue [1, 1]), then a drop
\* appended a third file: the queue and the cache are as the draw left them
C24_Witness ==
    /\ ev.op = "drop" /\ ~ev.new
    /\ Len(scanned_paths) = 3 /\ current_index = 0
    /\ preload_queue = <<1, 1>>
    /\ 0 \in DOMAIN cache

\* What the claim says root r contributes on the file system of the last
\* scan: the root itself when it is an eligible file, else the eligible files
\* below it, its direct children only unless scan_subfolders is set.
EligibleFile(f) == f.ext \in {"png", "PNG", "jpg"}
ScanDepth(r, f) == Len(f.path) - Len(r) - 1
Contribution(r) ==
    {f \in ev.fs :
        /\ EligibleFile(f)
        /\ \/ f.path = r
           \/ /\ IsPrefix(r, f.path) /\ f.path # r
              /\ IF scan_subfolders THEN ScanDepth(r, f) <= MAX_DEPTH_SCAN
                                    ELSE ScanDepth(r, f) = 0}
RECURSIVE ContributedBefore(_)
ContributedBefore(i) ==
    IF i <= 1 THEN 0
    ELSE ContributedBefore(i - 1) + Cardinality(Contribution(ev.paths[i - 1]))

\* C25: the result of the scan is, root after root in the given order, the
\* eligible files the root contributes: itself or its direct children when
\* scan_subfolders is off, the files down to the depth guard when it is on.
C25_ScanHonoursRecursiveFlag ==
    ev.op = "scan_input_paths" =>
        /\ Len(scanned_paths) = ContributedBefore(Len(ev.paths) + 1)
        /\ \A i \in 1..Len(ev.paths) :
              {scanned_paths[k] :
                  k \in (ContributedBefore(i) + 1)..ContributedBefore(i + 1)}
                = Contribution(ev.paths[i])

\* the root file 2 is given before the directory 1, whose only eligible
\* file lies in a subdirectory
C25_Witness ==
    /\ ev.op = "scan_input_paths" /\ scan_subfolders
    /\ ev.paths = <<<<2>>, <<1>>>>
    /\ scanned_paths = <<[path |-> <<2>>, ext |-> "PNG"],
                         [path |-> <<1, 1, 0>>, ext |-> "png"]>>

\* The transform the claim names for each value of the tag, pixel by pixel.
NamedTransform(img, tag) ==
    LET w == img.w
        h == img.h
        \* the pixel of img shown at <<x, y>> of the result
        source(x, y) ==
            CASE tag = 2 -> <<w - 1 - x, y>>          \* horizontal flip
              [] tag = 3 -> <<w - 1 - x, h - 1 - y>>  \* rotate 180
              [] tag = 4 -> <<x, h - 1 - y>>          \* vertical flip
              [] tag = 5 -> <<y, x>>                  \* transpose
              [] tag = 6 -> <<y, h - 1 - x>>          \* rotate 90
              [] tag = 7 -> <<w - 1 - y, h - 1 - x>>  \* transverse
              [] tag = 8 -> <<w - 1 - y, x>>          \* rotate 270
              [] OTHER -> <<x, y>>                    \* identity
        turned == tag \in 5..8
        rw == IF turned THEN h ELSE w
        rh == IF turned THEN w ELSE h
    IN  [w |-> rw, h |-> rh,
         px |-> [c \in Grid(rw, rh) |-> img.px[source(c[1], c[2])]]]

\* C26: the decoder applies to the image the transform named for the value
\* of the orientation tag, the eight transforms differ from one another (on
\* some image), tag 6 gives the tag-1 result rotated by 90 degrees, and an
\* absent tag or a value outside 1..8 leaves the image as it is.
C26_OrientationTransforms ==
    ev.op = "open_and_resize_image" =>
        /\ \A tag \in 1..8 :
              ev.orientation = {tag} => ev.img = NamedTransform(ev.file, tag)
        /\ \A tag \in 1..8, other \in 1..8 :
              (ev.orientation = {tag} /\ other # tag) =>
                  \E img \in Images :
                      exif_orientation(img, {tag}) # exif_orientation(img, {other})
        /\ ev.orientation = {6} =>
              ev.img = NamedTransform(exif_orientation(ev.file, {1}), 6)
        /\ (\A tag \in 1..8 : ev.orientation # {tag}) => ev.img = ev.file

\* tag 6 on an image two wide and one high whose left pixel is set: the
\* result is one wide and two high with the top pixel set
C26_Witness ==
    /\ ev.op = "open_and_resize_image"
    /\ ev.orientation = {6}
    /\ ev.file.w = 2 /\ ev.file.h = 1
    /\ ev.file.px[<<0, 0>>] = 1 /\ ev.file.px[<<1, 0>>] = 0
    /\ ev.img.w = 1 /\ ev.img.h = 2
    /\ ev.img.px[<<0, 0>>] = 1 /\ ev.img.px[<<0, 1>>] = 0

\* C27: every cache entry that carries a path carries the path the catalog
\* holds at the entry's index.
C27_CacheMatchesCatalog ==
    \A i \in DOMAIN cache :
        cache[i].path # NoPath =>
            /\ i < Len(scanned_paths)
            /\ cache[i].path = scanned_paths[i + 1]

\* C28: when every key of the cache is an index of the catalog, limit_cache
\* removes no entry within cache_extent of the current position, the entry
\* of the current position least of all.
C28_TrimKeepsNeighbours ==
    (/\ ev.op = "limit_cache"
     /\ \A k \in DOMAIN cache \cup ev.gone : k < Len(scanned_paths)) =>
        \A k \in ev.gone :
            /\ RingDistance(current_index, k, Len(scanned_paths)) > cache_extent
            /\ k # current_index

\* a trim that removed an entry and kept the current one and both neighbours
C28_Witness ==
    /\ ev.op = "limit_cache" /\ ev.gone # {}
    /\ cache_extent = 1
    /\ \A k \in DOMAIN cache \cup ev.gone : k < Len(scanned_paths)
    /\ \A k \in 0..(Len(scanned_paths) - 1) :
          RingDistance(current_index, k, Len(scanned_paths)) <= 1
              => k \in DOMAIN cache

\* C29 as stated: get_current calls the decoder exactly when current_index
\* is not a key of the cache, and on a hit returns the stored entry as it
\* is, a stored failure included.
C29_DecodeIffMiss ==
    [][ (ev'.op = "get_current") =>
            /\ ev'.decoded <=> current_index \notin DOMAIN cache
            /\ current_index \in DOMAIN cache =>
                  /\ current_index \in DOMAIN cache'
                  /\ cache'[current_index] = cache[current_index]
      ]_vars

\* C29 amended: get_current calls the decoder exactly when current_index is
\* not a key of the cache and is an index of the catalog; a miss at an index
\* the catalog does not have stores the placeholder without a decode; on a
\* hit the stored entry is returned as it is, a stored failure included.
C29_DecodeIffMissInCatalog ==
    [][ (ev'.op = "get_current") =>
            /\ ev'.decoded <=> (/\ current_index \notin DOMAIN cache
                                /\ current_index < Len(scanned_paths))
            /\ (/\ current_index \notin DOMAIN cache
                /\ ~(current_index < Len(scanned_paths))) =>
                  /\ current_index \in DOMAIN cache'
                  /\ cache'[current_index] = Placeholder
            /\ current_index \in DOMAIN cache =>
                  /\ current_index \in DOMAIN cache'
                  /\ cache'[current_index] = cache[current_index]
      ]_vars

\* get_current has returned, without a decode, the entry a failed decode left
C29_Witness ==
    /\ ev.op = "get_current" /\ ~ev.decoded
    /\ current_index \in DOMAIN cache
    /\ cache[current_index].emsg
    /\ current_index < Len(scanned_paths)

\* The image loader thread takes the lock of its "dequeue" block with a
\* queue that is not empty: it pops.
WorkerPops ==
    /\ wpc = "dequeue" /\ preload_queue # <<>>
    /\ \/ ev'.op = "dequeue"
       \/ ev'.op = "panic" /\ ev'.by = "worker" /\ ev'.at = "unwrap"

\* C30: an iteration of the worker pops the head of the queue and nothing
\* else, and goes on to decode the popped index exactly when the index is
\* not a key of the cache at that moment.
C30_WorkerFifoDecodeIffAbsent ==
    [][ WorkerPops =>
            /\ idx' = Head(preload_queue)
            /\ preload_queue' = Tail(preload_queue)
            /\ (wpc' = "load") <=> (Head(preload_queue) \notin DOMAIN cache)
      ]_vars

\* C31: while the catalog is empty the navigation of the event loop raises
\* no error (len - 1 does not leave usize) and the position stays 0.
C31_EmptyCatalogNavigationIsSafe ==
    Len(scanned_paths) = 0 =>
        /\ current_index = 0
        /\ ~(ev.op = "panic" /\ ev.by = "consumer" /\ ev.at = "overflow")

\* C32 as stated: for every catalog of len >= 2 and every cache_extent the
\* queue built by get_current does not hold the current position.
C32_PlanExcludesPosition ==
    (ev.op = "get_current_queue" /\ Len(scanned_paths) >= 2) =>
        current_index \notin Range(preload_queue)

\* C32 amended: for len >= 2 the queue built by get_current does not hold
\* the current position exactly when cache_extent < len.
C32_PlanExcludesPositionIffShort ==
    (ev.op = "get_current_queue" /\ Len(scanned_paths) >= 2) =>
        (current_index \notin Range(preload_queue)
            <=> cache_extent < Len(scanned_paths))

\* the widest plan on a ring of three that still leaves the position out
C32_Witness ==
    /\ ev.op = "get_current_queue"
    /\ Len(scanned_paths) = 3 /\ cache_extent = 2 /\ current_index = 2
    /\ preload_queue = <<0, 1, 1, 0>>

\* C33: a call of limit_cache that returns leaves a cache of at most
\* 2*cache_extent + 1 entries as it is (so a second call changes nothing),
\* removes exactly the entries in excess of that number from a larger one
\* without touching the others, and leaves the position, the preload queue
\* and the catalog alone.
C33_TrimFrame ==
    [][ (ev'.op = "limit_cache") =>
            /\ Cardinality(DOMAIN cache) <= 2 * cache_extent + 1 =>
                  cache' = cache
            /\ Cardinality(DOMAIN cache) > 2 * cache_extent + 1 =>
                  /\ DOMAIN cache' \subseteq DOMAIN cache
                  /\ Cardinality(DOMAIN cache \ DOMAIN cache')
                        = Cardinality(DOMAIN cache) - (2 * cache_extent + 1)
                  /\ \A k \in DOMAIN cache' : cache'[k] = cache[k]
            /\ \A c \in limit_cache(cache) : limit_cache(c)' = {c}
            /\ UNCHANGED <<current_index, preload_queue, scanned_paths>>
      ]_vars

\* limit_cache has removed two entries in one call
C33_Witness ==
    /\ ev.op = "limit_cache" /\ ev.removed = 2
    /\ Cardinality(DOMAIN cache) = 2 * cache_extent + 1

\* What a decode of path p that has just run leaves in the cache.
FreshEntry(p) ==
    IF p \in BadFiles THEN FailedEntry(p)
    ELSE [path |-> p, image |-> "decoded", emsg |-> FALSE]

\* The DroppedFile handler of a drop that starts a new catalog releases the
\* lock in this step.
ReplacingDropReleases ==
    \/ ev'.op = "force_reload_cache"
    \/ ev'.op = "drop" /\ ev'.new /\ lock' = "none"

\* C34 as stated: when the handler of a replacing drop releases the lock the
\* position is 0 and the cache holds one entry, the one just decoded from
\* the file at index 0; a drop that only appends leaves position and cache
\* as they are.
C34_ReplacingDropResets ==
    [][ /\ ReplacingDropReleases =>
              /\ current_index' = 0
              /\ DOMAIN cache' = {0}
              /\ scanned_paths' # <<>>
              /\ cache'[0] = FreshEntry(scanned_paths'[1])
        /\ (ev'.op = "drop" /\ ~ev'.new) => UNCHANGED <<current_index, cache>>
      ]_vars

\* C34 amended: when the handler of a replacing drop releases the lock the
\* position is 0 and the cache holds one entry at index 0: the one just
\* decoded from the file at index 0, or, when the drop found no eligible
\* file, a placeholder without path that no decode produced; a drop that
\* only appends leaves position and cache as they are.
C34_ReplacingDropResetsOrPlaceholder ==
    [][ /\ ReplacingDropReleases =>
              /\ current_index' = 0
              /\ DOMAIN cache' = {0}
              /\ cache'[0] = IF scanned_paths' = <<>> THEN Placeholder
                             ELSE FreshEntry(scanned_paths'[1])
        /\ (ev'.op = "drop" /\ ~ev'.new) => UNCHANGED <<current_index, cache>>
      ]_vars

\* the handler has replaced a drawn catalog by one whose first file does not
\* decode, and has released the lock
C34_Witness ==
    /\ ev.op = "force_reload_cache" /\ lock = "none"
    /\ current_index = 0
    /\ DOMAIN cache = {0}
    /\ cache[0] = FailedEntry("b.png")
    /\ preload_queue # <<>>

\* C35: while State.paused is set the position changes only through the
\* navigation of the user, never through a NextImage event of the timer.
C35_NoTimerAdvanceWhilePaused ==
    [][ (paused /\ current_index' # current_index) => ev'.op = "navigate" ]_vars

\* C36: the slideshow timer thread emits no NextImage event while its
\* duration is zero: every NextImage it sends follows a recv_timeout that
\* waited a non-zero duration.
C36_NoEventWhileDurationZero ==
    ev.op = "timer_send_event" => ev.dur # 0

\* C37: with pause_at_last set, a NextImage event handled at the last index
\* of the catalog leaves the position where it is and sets paused; the
\* position does not wrap to 0.
C37_PauseAtLast ==
    [][ (/\ ev'.op \in {"NextImage", "panic"}
         /\ pause_at_last
         /\ Len(scanned_paths) > 0
         /\ current_index = Len(scanned_paths) - 1)
        => (/\ ev'.op = "NextImage"
            /\ current_index' = current_index
            /\ paused'
            /\ UNCHANGED <<cache, preload_queue, rx_slideshow_timer>>)
    ]_vars

\* the timer of a playing slideshow of two images fired at the last index
\* and the handler paused there
C37_Witness ==
    /\ ev.op = "NextImage" /\ ev.at_last
    /\ pause_at_last /\ paused
    /\ default_timer_secs # 0
    /\ Len(scanned_paths) = 2 /\ current_index = 1
    /\ ~timer_paused

\* C38: when the configuration sets window.fullscreen, the enable() of the
\* set-up takes effect: FullscreenController.active is true when
\* initialisation is over.
C38_StartupFullscreenTakesEffect ==
    (ev.op = "setup_fullscreen" /\ conf_fullscreen) => fullscreen_active

\* C39: the cursor watcher thread sends MouseCursorSleep and MouseCursorAwake
\* in strict alternation that starts with Sleep: a Sleep follows no event or
\* an Awake, an Awake follows a Sleep.
C39_SleepAwakeAlternate ==
    [][ /\ (ev'.op \in {"cursor_timeout", "cursor_recv_timeout", "cursor_recv"}
            /\ ev'.sent = "Sleep")
           => /\ last_cursor_event \in {"none", "Awake"}
              /\ user_events' = Append(user_events, "MouseCursorSleep")
        /\ (ev'.op \in {"cursor_timeout", "cursor_recv_timeout", "cursor_recv"}
            /\ ev'.sent = "Awake")
           => /\ last_cursor_event = "Sleep"
              /\ user_events' = Append(user_events, "MouseCursorAwake")
        /\ (ev'.op \in {"cursor_timeout", "cursor_recv_timeout", "cursor_recv"}
            /\ ev'.sent = "none")
           => UNCHANGED user_events
    ]_vars

\* the thread has sent Sleep after a timeout and Awake after a cursor move,
\* and both wait for the event loop in that order
C39_Witness ==
    /\ ev.op = "cursor_recv_timeout" /\ ev.sent = "Awake"
    /\ last_cursor_event = "Awake"
    /\ user_events = <<"MouseCursorSleep", "MouseCursorAwake">>
    /\ ~sleeping

====
